---- MODULE Spec2Model ----
(***************************************************************************)
(* studybot: a chat listener that spots study-session proposals, asks the  *)
(* author to confirm with two buttons and reposts an announcement.         *)
(*                                                                         *)
(* Text is a sequence of one-character strings.  A handler (coroutine) is  *)
(* a record with a program counter naming the platform call it awaits;     *)
(* one step completes that call and runs the code up to the next await.    *)
(***************************************************************************)
EXTENDS Integers, Sequences, FiniteSets, TLC

VARIABLES
    msgs,       \* inbound messages delivered to on_message, in order
    routers,    \* on_message coroutines, one per inbound message
    views,      \* ConfirmStudyView objects and their prompts, per message
    handlers,   \* button-callback coroutines, in dispatch order
    planning,   \* messages posted to #study-group-planning, in order
    ctext,      \* the text handed to looks_like_study_session
    cresult,    \* what looks_like_study_session returned for ctext
    xtext,      \* the text handed to parse_when
    xnow,       \* what datetime.now() returns in parse_when
    xeastern,   \* the US Eastern wall clock at the instant parse_when runs
    xfull,      \* what dateparser.parse returns for the whole of xtext
    xresult     \* what parse_when returned for xtext

vars == <<msgs, routers, views, handlers, planning,
          ctext, cresult, xtext, xnow, xeastern, xfull, xresult>>

botVars == <<msgs, routers, views, handlers, planning>>
classifierVars == <<ctext, cresult>>
extractorVars == <<xtext, xnow, xeastern, xfull, xresult>>

None == <<>>

Some(x) == <<x>>

---------------------------------------------------------------------------
(* Characters and str.lower()                                              *)

UpperCase == << "A", "B", "C", "D", "E", "F", "G", "H", "I", "J", "K", "L", "M", "N", "O", "P", "Q", "R", "S", "T", "U", "V", "W", "X", "Y", "Z" >>

LowerCase == << "a", "b", "c", "d", "e", "f", "g", "h", "i", "j", "k", "l", "m", "n", "o", "p", "q", "r", "s", "t", "u", "v", "w", "x", "y", "z" >>

Digits == <<"0", "1", "2", "3", "4", "5", "6", "7", "8", "9">>

Range(f) == {f[k] : k \in DOMAIN f}

IsDigit(c) == c \in Range(Digits)

IsSpace(c) == c = " "

IsWordChar(c) == c \in Range(UpperCase) \cup Range(LowerCase) \cup Range(Digits) \cup {"_"}

LowerChar(c) ==
    IF c \in Range(UpperCase)
    THEN LowerCase[CHOOSE k \in DOMAIN UpperCase : UpperCase[k] = c]
    ELSE c

Lower(text) == [k \in 1..Len(text) |-> LowerChar(text[k])]

---------------------------------------------------------------------------
(* CONFIG and keyword tables                                               *)

GENERAL_CHANNEL_ID == "general-discussion"

STUDY_CHANNEL_ID == "study-group-planning"

INTENT_KEYWORDS ==
    << <<"s", "t", "u", "d", "y">>,
       <<"s", "t", "u", "d", "y", "i", "n", "g">>,
       <<"s", "t", "u", "d", "y", " ", "t", "o", "g", "e", "t", "h", "e", "r">>,
       <<"s", "t", "u", "d", "y", " ", "g", "r", "o", "u", "p">>,
       <<"r", "e", "v", "i", "e", "w">>,
       <<"g", "o", " ", "o", "v", "e", "r">>,
       <<"l", "o", "o", "k", " ", "o", "v", "e", "r">>,
       <<"p", "r", "a", "c", "t", "i", "c", "e">>,
       <<"r", "u", "n", " ", "t", "h", "r", "o", "u", "g", "h">>,
       <<"g", "o", " ", "t", "h", "r", "o", "u", "g", "h">>,
       <<"s", "e", "s", "s", "i", "o", "n">>,
       <<"m", "e", "e", "t">>,
       <<"m", "e", "e", "t", " ", "u", "p">>,
       <<"l", "i", "n", "k", " ", "u", "p">>,
       <<"g", "r", "o", "u", "p", " ", "u", "p">> >>

SCHEDULE_KEYWORDS ==
    << <<"t", "o", "d", "a", "y">>,
       <<"t", "o", "m", "o", "r", "r", "o", "w">>,
       <<"t", "o", "n", "i", "g", "h", "t">>,
       <<"l", "a", "t", "e", "r">>,
       <<"t", "h", "i", "s", " ", "w", "e", "e", "k", "e", "n", "d">>,
       <<"w", "e", "e", "k", "e", "n", "d">>,
       <<"a", "f", "t", "e", "r", " ", "c", "l", "a", "s", "s">>,
       <<"a", "f", "t", "e", "r", " ", "l", "e", "c", "t", "u", "r", "e">>,
       <<"a", "f", "t", "e", "r", " ", "l", "a", "b">>,
       <<"t", "h", "i", "s", " ", "a", "f", "t", "e", "r", "n", "o", "o", "n">>,
       <<"t", "h", "i", "s", " ", "e", "v", "e", "n", "i", "n", "g">>,
       <<"m", "o", "r", "n", "i", "n", "g">>,
       <<"a", "f", "t", "e", "r", "n", "o", "o", "n">>,
       <<"e", "v", "e", "n", "i", "n", "g">>,
       <<"n", "i", "g", "h", "t">>,
       <<"m", "o", "n", "d", "a", "y">>,
       <<"t", "u", "e", "s", "d", "a", "y">>,
       <<"w", "e", "d", "n", "e", "s", "d", "a", "y">>,
       <<"t", "h", "u", "r", "s", "d", "a", "y">>,
       <<"f", "r", "i", "d", "a", "y">>,
       <<"s", "a", "t", "u", "r", "d", "a", "y">>,
       <<"s", "u", "n", "d", "a", "y">> >>
---------------------------------------------------------------------------
(* TIME_PATTERN, as re.search runs it: leftmost start, then the            *)
(* alternatives and greedy quantifiers in backtracking order.              *)

\* \b between text[i-1] and text[i]
WordBoundary(text, i) ==
    (i > 1 /\ IsWordChar(text[i - 1])) # (i <= Len(text) /\ IsWordChar(text[i]))

DigitsAt(text, i, n) ==
    /\ i + n - 1 <= Len(text)
    /\ \A k \in i..(i + n - 1) : IsDigit(text[k])

LiteralAt(text, i, lit) ==
    /\ i + Len(lit) - 1 <= Len(text)
    /\ SubSeq(text, i, i + Len(lit) - 1) = lit

\* the choices the matcher backtracks over, in the order it tries them:
\* \d{1,2} takes two digits before one, (:\d{2})? and \s? are taken before
\* they are skipped, and the am/pm alternative comes before \d{1,2}:\d{2}
TIME_PATTERN ==
    << [alt |-> 1, nd |-> 2, colon |-> TRUE,  sp |-> TRUE],
       [alt |-> 1, nd |-> 2, colon |-> TRUE,  sp |-> FALSE],
       [alt |-> 1, nd |-> 2, colon |-> FALSE, sp |-> TRUE],
       [alt |-> 1, nd |-> 2, colon |-> FALSE, sp |-> FALSE],
       [alt |-> 1, nd |-> 1, colon |-> TRUE,  sp |-> TRUE],
       [alt |-> 1, nd |-> 1, colon |-> TRUE,  sp |-> FALSE],
       [alt |-> 1, nd |-> 1, colon |-> FALSE, sp |-> TRUE],
       [alt |-> 1, nd |-> 1, colon |-> FALSE, sp |-> FALSE],
       [alt |-> 2, nd |-> 2, colon |-> TRUE,  sp |-> FALSE],
       [alt |-> 2, nd |-> 1, colon |-> TRUE,  sp |-> FALSE] >>

\* the index just past the match of one choice at i, or 0 when it fails
TryChoice(text, i, c) ==
    LET p1 == i + c.nd
        p2 == IF c.colon THEN p1 + 3 ELSE p1
        p3 == IF c.sp THEN p2 + 1 ELSE p2
        p4 == IF c.alt = 1 THEN p3 + 2 ELSE p3
        ok == /\ WordBoundary(text, i)
              /\ DigitsAt(text, i, c.nd)
              /\ c.colon => (LiteralAt(text, p1, <<":">>) /\ DigitsAt(text, p1 + 1, 2))
              /\ c.sp => (p2 <= Len(text) /\ IsSpace(text[p2]))
              /\ c.alt = 1 =>
                    (LiteralAt(text, p3, <<"a", "m">>) \/ LiteralAt(text, p3, <<"p", "m">>))
              /\ WordBoundary(text, p4)
    IN  IF ok THEN p4 ELSE 0

MatchAt(text, i) ==
    LET hits == {k \in DOMAIN TIME_PATTERN : TryChoice(text, i, TIME_PATTERN[k]) # 0}
    IN  IF hits = {} THEN 0
        ELSE TryChoice(text, i, TIME_PATTERN[CHOOSE k \in hits : \A j \in hits : k <= j])

\* re.search(TIME_PATTERN, text): None, or the span of the leftmost match
re_search(text) ==
    LET starts == {i \in 1..Len(text) : MatchAt(text, i) # 0}
    IN  IF starts = {} THEN None
        ELSE LET i == CHOOSE i \in starts : \A j \in starts : i <= j
             IN  Some([start |-> i, end |-> MatchAt(text, i) - 1])

---------------------------------------------------------------------------
(* looks_like_study_session                                                *)

\* Python's `kw in lowered`
Contains(text, kw) ==
    \E i \in 1..(Len(text) - Len(kw) + 1) : SubSeq(text, i, i + Len(kw) - 1) = kw

AnyKeyword(lowered, keywords) ==
    \E k \in DOMAIN keywords : Contains(lowered, keywords[k])

\* looks_like_study_session asking for a time and a schedule word
looks_like_study_session_needs_both(text) ==
    LET lowered == Lower(text)
        has_intent == AnyKeyword(lowered, INTENT_KEYWORDS)
        has_time == re_search(lowered) # None
        has_schedule_word == AnyKeyword(lowered, SCHEDULE_KEYWORDS)
    IN  IF ~has_intent THEN FALSE
        ELSE has_time /\ has_schedule_word

looks_like_study_session(text) ==
    LET lowered == Lower(text)
        has_intent == AnyKeyword(lowered, INTENT_KEYWORDS)
        has_time == re_search(lowered) # None
        has_schedule_word == AnyKeyword(lowered, SCHEDULE_KEYWORDS)
    IN  IF ~has_intent THEN FALSE
        ELSE has_time \/ has_schedule_word

---------------------------------------------------------------------------
(* parse_when                                                              *)

\* a naive datetime: the date as a day ordinal, then the wall-clock fields
DateTime(date, hour, minute, second, microsecond) ==
    [date |-> date, hour |-> hour, minute |-> minute,
     second |-> second, microsecond |-> microsecond]

\* datetime's ordering: field by field
DtLess(a, b) ==
    \/ a.date < b.date
    \/ a.date = b.date /\ a.hour < b.hour
    \/ a.date = b.date /\ a.hour = b.hour /\ a.minute < b.minute
    \/ a.date = b.date /\ a.hour = b.hour /\ a.minute = b.minute
         /\ a.second < b.second
    \/ a.date = b.date /\ a.hour = b.hour /\ a.minute = b.minute
         /\ a.second = b.second /\ a.microsecond < b.microsecond

DtLessEq(a, b) == a = b \/ DtLess(a, b)

DigitValue(c) == (CHOOSE k \in DOMAIN Digits : Digits[k] = c) - 1

RECURSIVE ToInt(_)
ToInt(ds) ==
    IF ds = <<>> THEN 0
    ELSE 10 * ToInt(SubSeq(ds, 1, Len(ds) - 1)) + DigitValue(ds[Len(ds)])

\* dateparser.parse(time_part) on a matched clock-time token: the hour and
\* minute of the datetime it returns, None for a time of day that does not
\* exist (a 12-hour clock runs 1..12, a 24-hour clock 0..23)
dateparser_parse_time(time_part) ==
    LET nd == IF Len(time_part) >= 2 /\ IsDigit(time_part[2]) THEN 2 ELSE 1
        h == ToInt(SubSeq(time_part, 1, nd))
        colon == Len(time_part) > nd /\ time_part[nd + 1] = ":"
        m == IF colon THEN ToInt(SubSeq(time_part, nd + 2, nd + 3)) ELSE 0
        suffix == IF Len(time_part) >= 2
                  THEN SubSeq(time_part, Len(time_part) - 1, Len(time_part))
                  ELSE <<>>
    IN  IF m > 59 THEN None
        ELSE IF suffix = <<"a", "m">>
             THEN IF h \in 1..12 THEN Some([hour |-> h % 12, minute |-> m]) ELSE None
        ELSE IF suffix = <<"p", "m">>
             THEN IF h \in 1..12 THEN Some([hour |-> (h % 12) + 12, minute |-> m]) ELSE None
        ELSE IF h \in 0..23 THEN Some([hour |-> h, minute |-> m]) ELSE None

\* parse_when rolling over only when the time is strictly past (dt < now)
parse_when_strictly_past(text, full, now) ==
    LET parsed == full
        lowered == Lower(text)
        m == re_search(lowered)
    IN  IF parsed # None THEN parsed
        ELSE IF m = None THEN None
        ELSE LET time_part == SubSeq(lowered, m[1].start, m[1].end)
                 time_only == dateparser_parse_time(time_part)
             IN  IF time_only = None THEN None
                 ELSE LET dt == DateTime(now.date, time_only[1].hour,
                                         time_only[1].minute, 0, 0)
                      IN  IF DtLess(dt, now)
                          THEN Some([dt EXCEPT !.date = dt.date + 1])
                          ELSE Some(dt)

\* parse_when(text); `full` is what dateparser.parse returns for the whole
\* text and `now` what datetime.now() returns
parse_when(text, full, now) ==
    LET parsed == full
        lowered == Lower(text)
        m == re_search(lowered)
    IN  IF parsed # None THEN parsed
        ELSE IF m = None THEN None
        ELSE LET time_part == SubSeq(lowered, m[1].start, m[1].end)
                 time_only == dateparser_parse_time(time_part)
             IN  IF time_only = None THEN None
                 ELSE LET dt == DateTime(now.date, time_only[1].hour,
                                         time_only[1].minute, 0, 0)
                      IN  IF DtLessEq(dt, now)
                          THEN Some([dt EXCEPT !.date = dt.date + 1])
                          ELSE Some(dt)

---------------------------------------------------------------------------
(* Inputs                                                                  *)

\* most fragments joined into one Classifier input
MaxFragments == 3

Fragments ==
    { <<"s", "t", "u", "d", "y", " ">>,
      <<"M", "e", "e", "t">>,
      <<" ", "4">>,
      <<"1", "2">>,
      <<":", "3", "0">>,
      <<"p", "m">>,
      <<" ", "A", "M">>,
      <<"t", "o", "d", "a", "y">>,
      <<"x">> }

RECURSIVE TextsOf(_)
TextsOf(n) ==
    IF n = 0 THEN {<<>>}
    ELSE LET shorter == TextsOf(n - 1)
         IN  shorter \cup {t \o f : t \in shorter, f \in Fragments}

ExtractorTexts ==
    { <<"s", "t", "u", "d", "y", " ", "4", "p", "m">>,
      <<"s", "t", "u", "d", "y", " ", "1", "6", ":", "0", "0">>,
      <<"s", "t", "u", "d", "y", " ", "4", "p", "m", " ", "o", "r", " ", "5", ":", "3", "0", "p", "m">>,
      <<"s", "t", "u", "d", "y", " ", "9", "9", ":", "9", "9", " ", "o", "r", " ", "5", "p", "m">>,
      <<"s", "t", "u", "d", "y", " ", "1", "2", "a", "m">>,
      <<"s", "t", "u", "d", "y", " ", "l", "a", "t", "e", "r">>,
      <<"s", "t", "u", "d", "y", " ", "4", " ", "P", "M">>,
      <<"s", "t", "u", "d", "y", " ", "1", "3", "p", "m">> }

Today == 100

Nows ==
    { DateTime(Today, h, m, s, us) :
        h \in {0, 16, 23}, m \in {0, 59}, s \in {0, 59}, us \in {0, 999999} }

\* time zones of the host, as the hours its wall clock is ahead of US
\* Eastern: a host in Eastern, one on UTC (in winter), one in US Pacific
HostZones == {0, 5, -3}

\* datetime.now() without a tz argument: the wall clock of the host's own
\* time zone, at the instant the Eastern wall clock shows `eastern`
datetime_now(eastern, zone) ==
    LET hour == eastern.hour + zone
    IN  IF hour >= 24
        THEN [eastern EXCEPT !.date = @ + 1, !.hour = hour - 24]
        ELSE IF hour < 0
        THEN [eastern EXCEPT !.date = @ - 1, !.hour = hour + 24]
        ELSE [eastern EXCEPT !.hour = hour]

\* answers of the full-text dateparser call: nothing, or some point in time
FullParses == { None, Some(DateTime(Today + 1, 9, 0, 0, 0)) }

NotRun == [ran |-> FALSE, value |-> None]

---------------------------------------------------------------------------
(* The Classifier alone                                                    *)

BotIdle ==
    /\ msgs = <<>>
    /\ routers = <<>>
    /\ views = <<>>
    /\ handlers = <<>>
    /\ planning = <<>>

ClassifierIdle ==
    /\ ctext = <<>>
    /\ cresult = NotRun

ExtractorIdle ==
    /\ xtext = <<>>
    /\ xnow = DateTime(Today, 0, 0, 0, 0)
    /\ xeastern = DateTime(Today, 0, 0, 0, 0)
    /\ xfull = None
    /\ xresult = NotRun

InitClassifier ==
    /\ BotIdle
    /\ ExtractorIdle
    /\ ctext \in TextsOf(MaxFragments)
    /\ cresult = NotRun

Classify ==
    /\ ~cresult.ran
    /\ cresult' = [ran |-> TRUE, value |-> Some(looks_like_study_session(ctext))]
    /\ UNCHANGED <<ctext, botVars, extractorVars>>

NextClassifier == Classify

SpecClassifier == InitClassifier /\ [][NextClassifier]_vars

---------------------------------------------------------------------------
(* The Extractor alone                                                     *)

InitExtractor ==
    /\ BotIdle
    /\ ClassifierIdle
    /\ xtext \in ExtractorTexts
    /\ xeastern \in Nows
    /\ xnow \in { datetime_now(xeastern, zone) : zone \in HostZones }
    /\ xfull \in FullParses
    /\ xresult = NotRun

Extract ==
    /\ ~xresult.ran
    /\ xresult' = [ran |-> TRUE, value |-> parse_when(xtext, xfull, xnow)]
    /\ UNCHANGED <<xtext, xnow, xeastern, xfull, botVars, classifierVars>>

NextExtractor == Extract

SpecExtractor == InitExtractor /\ [][NextExtractor]_vars

---------------------------------------------------------------------------
(* The bot: on_message, ConfirmStudyView and its two button callbacks      *)

\* most inbound messages, and most button clicks the platform dispatches
MaxMessages == 2

MaxClicks == 2

Alice == [id |-> "alice", bot |-> FALSE]

Bob == [id |-> "bob", bot |-> FALSE]

Robo == [id |-> "robo", bot |-> TRUE]

\* accounts that can press a button
Clickers == {Alice.id, Bob.id}

Message(author, channel, content) ==
    [author |-> author, channel |-> channel, content |-> content]

\* the inbound messages tried: two that pass every gate of on_message, and
\* one that fails each gate alone
Inbound ==
    { Message(Alice, GENERAL_CHANNEL_ID, <<"s", "t", "u", "d", "y", " ", "4", "p", "m">>),
      Message(Bob, GENERAL_CHANNEL_ID, <<"R", "e", "v", "i", "e", "w", " ", "t", "o", "d", "a", "y">>),
      Message(Alice, GENERAL_CHANNEL_ID, <<"l", "u", "n", "c", "h", " ", "4", "p", "m">>),
      Message(Alice, "off-topic", <<"s", "t", "u", "d", "y", " ", "4", "p", "m">>),
      Message(Robo, GENERAL_CHANNEL_ID, <<"s", "t", "u", "d", "y", " ", "4", "p", "m">>) }

\* what datetime.now() returns inside a callback
BotNows == { DateTime(Today, 15, 0, 0, 0) }

\* what the full-text dateparser call returns inside a callback: it finds no
\* date in the sentences of Inbound (SpecExtractor covers the other answer)
BotFullParses == { None }

Buttons == {"Yes", "No"}

\* ConfirmStudyView.__init__: super().__init__(timeout=60), in seconds
timeout == 60

\* a message slot without a ConfirmStudyView
NoView ==
    [stored |-> FALSE,
     children |-> [b \in Buttons |-> [disabled |-> FALSE]],
     finished |-> FALSE,
     idle |-> 0,
     prompt |-> [posted |-> FALSE, disabled |-> [b \in Buttons |-> FALSE]]]

\* ConfirmStudyView(message) once message.reply(..., view=view) has posted
\* the prompt: timeout running, both children enabled and shown enabled.
\* idle is the time in seconds since the view was stored or last received
\* a click.
NewView ==
    [stored |-> TRUE,
     children |-> [b \in Buttons |-> [disabled |-> FALSE]],
     finished |-> FALSE,
     idle |-> 0,
     prompt |-> [posted |-> TRUE, disabled |-> [b \in Buttons |-> FALSE]]]

NoDraft == [mention |-> "", content |-> <<>>, when_line |-> None]

Init ==
    /\ BotIdle
    /\ ClassifierIdle
    /\ ExtractorIdle

---------------------------------------------------------------------------
(* on_message                                                              *)

\* on_message_start with the bot gate moved above process_commands
on_message_start_bot_gate_first(message) ==
    IF message.author.bot
    THEN [pc |-> "done", log |-> <<"check_bot">>]
    ELSE [pc |-> "process_commands", log |-> <<>>]

\* on_message up to its first await: the call of bot.process_commands
on_message_start(message) == [pc |-> "process_commands", log |-> <<>>]

\* on_message_gates without the channel gate
on_message_gates_any_channel(message) ==
    IF message.author.bot
    THEN [pass |-> FALSE, log |-> <<"check_bot">>]
    ELSE IF looks_like_study_session(message.content)
    THEN [pass |-> TRUE, log |-> <<"check_bot", "classify">>]
    ELSE [pass |-> FALSE, log |-> <<"check_bot", "classify">>]

\* the three gates, in order; log lists the gates that were evaluated
on_message_gates(message) ==
    IF message.author.bot
    THEN [pass |-> FALSE, log |-> <<"check_bot">>]
    ELSE IF message.channel # GENERAL_CHANNEL_ID
    THEN [pass |-> FALSE, log |-> <<"check_bot", "check_channel">>]
    ELSE IF looks_like_study_session(message.content)
    THEN [pass |-> TRUE, log |-> <<"check_bot", "check_channel", "classify">>]
    ELSE [pass |-> FALSE, log |-> <<"check_bot", "check_channel", "classify">>]

\* the platform delivers a message and on_message starts
Receive(message) ==
    /\ Len(msgs) < MaxMessages
    /\ msgs' = Append(msgs, message)
    /\ routers' = Append(routers, on_message_start(message))
    /\ views' = Append(views, NoView)
    /\ UNCHANGED <<handlers, planning, classifierVars, extractorVars>>

\* CommandsDone that lets a message pass only while no earlier message of
\* the same author has a prompt
CommandsDone_once_per_author(m) ==
    /\ routers[m].pc = "process_commands"
    /\ LET gates == on_message_gates(msgs[m])
           log == routers[m].log \o <<"process_commands">> \o gates.log
           fresh == \A n \in DOMAIN msgs :
                        (n # m /\ msgs[n].author = msgs[m].author) =>
                            (~views[n].stored /\ routers[n].pc # "reply")
       IN  routers' = [routers EXCEPT ![m] =
               [pc |-> IF gates.pass /\ fresh THEN "reply" ELSE "done", log |-> log]]
    /\ UNCHANGED <<msgs, views, handlers, planning, classifierVars, extractorVars>>

\* bot.process_commands returns; the gates run; on a match the view is
\* built and message.reply is called
CommandsDone(m) ==
    /\ routers[m].pc = "process_commands"
    /\ LET gates == on_message_gates(msgs[m])
           log == routers[m].log \o <<"process_commands">> \o gates.log
       IN  routers' = [routers EXCEPT ![m] =
               [pc |-> IF gates.pass THEN "reply" ELSE "done", log |-> log]]
    /\ UNCHANGED <<msgs, views, handlers, planning, classifierVars, extractorVars>>

\* message.reply returns: the prompt is posted with the view attached
ReplyDone(m) ==
    /\ routers[m].pc = "reply"
    /\ routers' = [routers EXCEPT ![m] =
           [pc |-> "done", log |-> routers[m].log \o <<"reply">>]]
    /\ views' = [views EXCEPT ![m] = NewView]
    /\ UNCHANGED <<msgs, handlers, planning, classifierVars, extractorVars>>

---------------------------------------------------------------------------
(* ConfirmStudyView                                                        *)

\* is_original_author without the comparison: anyone is let through
is_original_author_anyone(user, message) == TRUE

\* interaction.user.id != self.original_message.author.id, negated
is_original_author(user, message) == user = message.author.id

\* a callback up to its first await: the rejection notice or the
\* acknowledgment is being sent
button_start(w, user, button) ==
    [view |-> w, user |-> user, button |-> button,
     pc |-> IF is_original_author(user, msgs[w]) THEN "ack" ELSE "reject",
     log |-> <<>>, draft |-> NoDraft, session |-> 0]

\* for child in self.children: child.disabled = True
disable_children(view) ==
    [view EXCEPT !.children = [b \in Buttons |-> [disabled |-> TRUE]]]

\* datetime.strftime("%A, %B %d, %Y at %I:%M %p")
strftime(dt) ==
    [date |-> dt.date,
     hour12 |-> IF dt.hour % 12 = 0 THEN 12 ELSE dt.hour % 12,
     minute |-> dt.minute,
     ampm |-> IF dt.hour < 12 THEN "AM" ELSE "PM"]

\* session_text that never adds the when-line
session_text_without_when(message, when_dt) ==
    [mention |-> message.author.id,
     content |-> message.content,
     when_line |-> None]

\* the text yes_button builds for the planning channel
session_text(message, when_dt) ==
    [mention |-> message.author.id,
     content |-> message.content,
     when_line |-> IF when_dt # None THEN Some(strftime(when_dt[1])) ELSE None]

\* Click that is dispatched to a view whose timeout has elapsed as well
Click_after_timeout(w, user, button) ==
    /\ Len(handlers) < MaxClicks
    /\ views[w].stored
    /\ ~views[w].prompt.disabled[button]
    /\ handlers' = Append(handlers, button_start(w, user, button))
    /\ views' = [views EXCEPT ![w].idle = 0]
    /\ UNCHANGED <<msgs, routers, planning, classifierVars, extractorVars>>

\* the platform dispatches a click to the view's callback.  It does so only
\* while the view is in the view store (not timed out) and the prompt, as the
\* platform holds it, shows the button enabled.  A dispatched click restarts
\* the view's timeout.
Click(w, user, button) ==
    /\ Len(handlers) < MaxClicks
    /\ views[w].stored
    /\ ~views[w].finished
    /\ ~views[w].prompt.disabled[button]
    /\ handlers' = Append(handlers, button_start(w, user, button))
    /\ views' = [views EXCEPT ![w].idle = 0]
    /\ UNCHANGED <<msgs, routers, planning, classifierVars, extractorVars>>

\* RejectDone without the return: the callback goes on to the acknowledgment
RejectDone_without_return(h) ==
    /\ handlers[h].pc = "reject"
    /\ handlers' = [handlers EXCEPT ![h].pc = "ack",
                                    ![h].log = Append(@, "reject")]
    /\ UNCHANGED <<msgs, routers, views, planning, classifierVars, extractorVars>>

\* the rejection notice is sent; the callback returns
RejectDone(h) ==
    /\ handlers[h].pc = "reject"
    /\ handlers' = [handlers EXCEPT ![h].pc = "done",
                                    ![h].log = Append(@, "reject")]
    /\ UNCHANGED <<msgs, routers, views, planning, classifierVars, extractorVars>>

\* yes_button after its acknowledgment: get_channel, then either the error
\* notice or parse_when and study_channel.send
yes_after_ack(hd, message, found, full, now) ==
    IF ~found
    THEN [hd EXCEPT !.pc = "followup"]
    ELSE [hd EXCEPT !.pc = "send",
                    !.draft = session_text(message,
                                  parse_when(message.content, full, now))]

YesAckDone(h) ==
    /\ handlers[h].pc = "ack"
    /\ handlers[h].button = "Yes"
    /\ \E found \in BOOLEAN, full \in BotFullParses, now \in BotNows :
          handlers' = [handlers EXCEPT ![h] =
              yes_after_ack([handlers[h] EXCEPT !.log = Append(@, "ack")],
                            msgs[handlers[h].view], found, full, now)]
    /\ UNCHANGED <<msgs, routers, views, planning, classifierVars, extractorVars>>

\* the error notice is sent; the callback returns
FollowupDone(h) ==
    /\ handlers[h].pc = "followup"
    /\ handlers' = [handlers EXCEPT ![h].pc = "done",
                                    ![h].log = Append(@, "error")]
    /\ UNCHANGED <<msgs, routers, views, planning, classifierVars, extractorVars>>

\* yes_next with the second add_reaction left out
yes_next_without_maybe(pc) ==
    CASE pc = "send" -> "react_going"
      [] pc = "react_going" -> "react_not_going"
      [] pc = "react_maybe" -> "react_not_going"
      [] pc = "react_not_going" -> "edit"

\* the await that follows `pc` in yes_button once the channel is found
yes_next(pc) ==
    CASE pc = "send" -> "react_going"
      [] pc = "react_going" -> "react_maybe"
      [] pc = "react_maybe" -> "react_not_going"
      [] pc = "react_not_going" -> "edit"

\* the reaction each add_reaction call adds
reaction_of(pc) ==
    CASE pc = "react_going" -> "going"
      [] pc = "react_maybe" -> "maybe"
      [] pc = "react_not_going" -> "not-going"

\* the code between two awaits of yes_button: nothing between the send and
\* the reactions; the buttons are disabled right before message.edit
yes_resume(h, pc) ==
    /\ handlers' = [handlers EXCEPT
           ![h].pc = yes_next(pc),
           ![h].session = IF pc = "send" THEN Len(planning) + 1 ELSE @,
           ![h].log = Append(@, IF pc = "send" THEN "announce" ELSE reaction_of(pc))]
    /\ views' = IF yes_next(pc) = "edit"
                THEN [views EXCEPT ![handlers[h].view] = disable_children(@)]
                ELSE views

\* study_channel.send returns the posted session_message
SendDone(h) ==
    /\ handlers[h].pc = "send"
    /\ planning' = Append(planning,
           [by |-> h, view |-> handlers[h].view, text |-> handlers[h].draft,
            reactions |-> <<>>])
    /\ yes_resume(h, "send")
    /\ UNCHANGED <<msgs, routers, classifierVars, extractorVars>>

\* session_message.add_reaction returns
ReactionDone(h) ==
    /\ handlers[h].pc \in {"react_going", "react_maybe", "react_not_going"}
    /\ planning' = [planning EXCEPT ![handlers[h].session].reactions =
                        Append(@, reaction_of(handlers[h].pc))]
    /\ yes_resume(h, handlers[h].pc)
    /\ UNCHANGED <<msgs, routers, classifierVars, extractorVars>>

\* no_after_ack disabling the buttons of every view there is
no_after_ack_disables_all(h) ==
    /\ handlers' = [handlers EXCEPT ![h].pc = "edit",
                                    ![h].log = Append(@, "ack")]
    /\ views' = [w \in DOMAIN views |-> disable_children(views[w])]
    /\ planning' = planning

\* no_after_ack posting in the planning channel as yes_button does
no_after_ack_announces(h) ==
    /\ handlers' = [handlers EXCEPT ![h].pc = "edit",
                                    ![h].log = Append(@, "ack")]
    /\ views' = [views EXCEPT ![handlers[h].view] = disable_children(@)]
    /\ planning' = Append(planning,
           [by |-> h, view |-> handlers[h].view,
            text |-> session_text(msgs[handlers[h].view], None),
            reactions |-> <<>>])

\* no_after_ack returning after the loop, without interaction.message.edit
no_after_ack_without_edit(h) ==
    /\ handlers' = [handlers EXCEPT ![h].pc = "done",
                                    ![h].log = Append(@, "ack")]
    /\ views' = [views EXCEPT ![handlers[h].view] = disable_children(@)]
    /\ planning' = planning

\* no_after_ack without the loop that disables the buttons
no_after_ack_keeps_buttons(h) ==
    /\ handlers' = [handlers EXCEPT ![h].pc = "edit",
                                    ![h].log = Append(@, "ack")]
    /\ views' = views
    /\ planning' = planning

\* no_button after its acknowledgment: the buttons are disabled and
\* interaction.message.edit is called
no_after_ack(h) ==
    /\ handlers' = [handlers EXCEPT ![h].pc = "edit",
                                    ![h].log = Append(@, "ack")]
    /\ views' = [views EXCEPT ![handlers[h].view] = disable_children(@)]
    /\ planning' = planning

NoAckDone(h) ==
    /\ handlers[h].pc = "ack"
    /\ handlers[h].button = "No"
    /\ no_after_ack(h)
    /\ UNCHANGED <<msgs, routers, classifierVars, extractorVars>>

\* interaction.message.edit(view=self) returns: the prompt now shows the
\* view's children as they are; the callback returns
EditDone(h) ==
    /\ handlers[h].pc = "edit"
    /\ LET w == handlers[h].view
       IN  views' = [views EXCEPT ![w].prompt.disabled =
                        [b \in Buttons |-> views[w].children[b].disabled]]
    /\ handlers' = [handlers EXCEPT ![h].pc = "done",
                                    ![h].log = Append(@, "edit")]
    /\ UNCHANGED <<msgs, routers, planning, classifierVars, extractorVars>>

\* the awaits of a callback that lie after its authorization gate
PostGateAwaits ==
    {"ack", "followup", "send", "react_going", "react_maybe", "react_not_going", "edit"}

\* a platform call after the gate raises: nothing catches it, the callback
\* ends there
PlatformFailure(h) ==
    /\ handlers[h].pc \in PostGateAwaits
    /\ handlers' = [handlers EXCEPT ![h].pc = "raised"]
    /\ UNCHANGED <<msgs, routers, views, planning, classifierVars, extractorVars>>

\* super().__init__(timeout=60) elapses: the view leaves the view store and
\* no further click reaches its callbacks.  Spec does not follow the time:
\* there the timeout may elapse at any moment; SpecExpiry follows the time.
ViewTimeout(w) ==
    /\ views[w].stored
    /\ ~views[w].finished
    /\ views' = [views EXCEPT ![w].finished = TRUE]
    /\ UNCHANGED <<msgs, routers, handlers, planning, classifierVars, extractorVars>>

Next ==
    \/ \E message \in Inbound : Receive(message)
    \/ \E m \in DOMAIN msgs : CommandsDone(m)
    \/ \E m \in DOMAIN msgs : ReplyDone(m)
    \/ \E w \in DOMAIN views, user \in Clickers, button \in Buttons :
          Click(w, user, button)
    \/ \E h \in DOMAIN handlers : RejectDone(h)
    \/ \E h \in DOMAIN handlers : YesAckDone(h)
    \/ \E h \in DOMAIN handlers : FollowupDone(h)
    \/ \E h \in DOMAIN handlers : SendDone(h)
    \/ \E h \in DOMAIN handlers : ReactionDone(h)
    \/ \E h \in DOMAIN handlers : NoAckDone(h)
    \/ \E h \in DOMAIN handlers : EditDone(h)
    \/ \E h \in DOMAIN handlers : PlatformFailure(h)
    \/ \E w \in DOMAIN views : ViewTimeout(w)

Spec == Init /\ [][Next]_vars

\* most inbound messages in the specifications that follow the time or
\* state fairness
MaxMessagesSmall == 1

ReceiveSmall(message) ==
    /\ Len(msgs) < MaxMessagesSmall
    /\ Receive(message)

---------------------------------------------------------------------------
(* The bot with the time followed: the view timeout elapses when, and only *)
(* when, a view has gone `timeout` seconds without a click                 *)

\* the seconds that pass in one step of the clock
TickSeconds == 30

Min(a, b) == IF a < b THEN a ELSE b

\* the view is in the view store and its timeout has not elapsed
Live(w) == views[w].stored /\ ~views[w].finished

\* time passes for every view.  The platform's timer fires on time: the
\* clock does not pass the moment a live view's timeout elapses.
Tick ==
    /\ \E w \in DOMAIN views : views[w].stored /\ views[w].idle <= timeout
    /\ \A w \in DOMAIN views : Live(w) => views[w].idle < timeout
    /\ views' = [w \in DOMAIN views |->
           IF ~views[w].stored THEN views[w]
           ELSE IF Live(w)
           THEN [views[w] EXCEPT !.idle = Min(@ + TickSeconds, timeout)]
           ELSE [views[w] EXCEPT !.idle = Min(@ + TickSeconds, timeout + 1)]]
    /\ UNCHANGED <<msgs, routers, handlers, planning, classifierVars, extractorVars>>

\* the view has gone `timeout` seconds without a click: its timeout elapses
ViewExpires(w) ==
    /\ views[w].idle >= timeout
    /\ ViewTimeout(w)

NextExpiry ==
    \/ \E message \in Inbound : ReceiveSmall(message)
    \/ \E m \in DOMAIN msgs : CommandsDone(m)
    \/ \E m \in DOMAIN msgs : ReplyDone(m)
    \/ \E w \in DOMAIN views, user \in Clickers, button \in Buttons :
          Click(w, user, button)
    \/ \E h \in DOMAIN handlers : RejectDone(h)
    \/ \E h \in DOMAIN handlers : YesAckDone(h)
    \/ \E h \in DOMAIN handlers : FollowupDone(h)
    \/ \E h \in DOMAIN handlers : SendDone(h)
    \/ \E h \in DOMAIN handlers : ReactionDone(h)
    \/ \E h \in DOMAIN handlers : NoAckDone(h)
    \/ \E h \in DOMAIN handlers : EditDone(h)
    \/ \E h \in DOMAIN handlers : PlatformFailure(h)
    \/ \E w \in DOMAIN views : ViewExpires(w)
    \/ Tick

SpecExpiry == Init /\ [][NextExpiry]_vars

---------------------------------------------------------------------------
(* The bot when no platform call raises and every awaited call returns:    *)
(* the event loop resumes a coroutine whose awaited call has returned      *)

\* the awaited call of callback h returns and h runs to its next await
Resume(h) ==
    /\ h \in DOMAIN handlers
    /\ \/ RejectDone(h)
       \/ YesAckDone(h)
       \/ FollowupDone(h)
       \/ SendDone(h)
       \/ ReactionDone(h)
       \/ NoAckDone(h)
       \/ EditDone(h)

NextReturning ==
    \/ \E message \in Inbound : ReceiveSmall(message)
    \/ \E m \in DOMAIN msgs : CommandsDone(m)
    \/ \E m \in DOMAIN msgs : ReplyDone(m)
    \/ \E w \in DOMAIN views, user \in Clickers, button \in Buttons :
          Click(w, user, button)
    \/ \E h \in DOMAIN handlers : RejectDone(h)
    \/ \E h \in DOMAIN handlers : YesAckDone(h)
    \/ \E h \in DOMAIN handlers : FollowupDone(h)
    \/ \E h \in DOMAIN handlers : SendDone(h)
    \/ \E h \in DOMAIN handlers : ReactionDone(h)
    \/ \E h \in DOMAIN handlers : NoAckDone(h)
    \/ \E h \in DOMAIN handlers : EditDone(h)
    \/ \E w \in DOMAIN views : ViewTimeout(w)

SpecReturning ==
    /\ Init
    /\ [][NextReturning]_vars
    /\ \A h \in 1..MaxClicks : WF_vars(Resume(h))

---------------------------------------------------------------------------
(* Vocabulary of the properties                                            *)

IsPrefix(s, t) == Len(s) <= Len(t) /\ SubSeq(t, 1, Len(s)) = s

Count(s, x) == Cardinality({k \in DOMAIN s : s[k] = x})

\* the callback h runs for a click by the author of its originating message
ByAuthor(h) == handlers[h].user = msgs[handlers[h].view].author.id

\* the step just taken was taken by callback h (its dispatch included)
StepOf(h) == h \notin DOMAIN handlers \/ handlers'[h] # handlers[h]

\* both controls enabled, in the view object and on the prompt
ControlsEnabled(w) ==
    \A b \in Buttons : ~views[w].children[b].disabled /\ ~views[w].prompt.disabled[b]

\* both controls disabled, in the view object and on the prompt
ControlsDisabled(w) ==
    \A b \in Buttons : views[w].children[b].disabled /\ views[w].prompt.disabled[b]

\* the workflow as the program holds it is still the one it created: in the
\* view store, not timed out, both controls enabled
Pending(w) == views[w].stored /\ ~views[w].finished /\ ControlsEnabled(w)

Announcements(w) == {k \in DOMAIN planning : planning[k].view = w}

---------------------------------------------------------------------------
(* C1: a click by anyone but the author of the originating message changes *)
(* neither the view, nor the prompt, nor the planning channel; all it does *)
(* is send one private rejection notice to the clicker.                    *)

C1_StrangerLog ==
    \A h \in DOMAIN handlers :
        ~ByAuthor(h) =>
            /\ handlers[h].pc \in {"reject", "done"}
            /\ handlers[h].log = IF handlers[h].pc = "done" THEN <<"reject">> ELSE <<>>

C1_StrangerFrame ==
    \A h \in DOMAIN handlers' :
        (~ByAuthor(h)' /\ StepOf(h)) =>
            /\ views' = views
            /\ planning' = planning
            /\ \A g \in DOMAIN handlers : g # h => handlers'[g] = handlers[g]

C1_UnauthorizedClickChangesNothing ==
    C1_StrangerLog /\ [][C1_StrangerLog' /\ C1_StrangerFrame]_vars

C1_Witness ==
    \E h \in DOMAIN handlers :
        /\ ~ByAuthor(h)
        /\ handlers[h].pc = "done"
        /\ handlers[h].log = <<"reject">>
        /\ Pending(handlers[h].view)

---------------------------------------------------------------------------
(* C2: at most one Announcement is ever posted to the planning channel for *)
(* one originating message, whatever the clicks and their interleaving.    *)

C2_AnnouncementCreatedOnce ==
    \A w \in DOMAIN views : Cardinality(Announcements(w)) <= 1

---------------------------------------------------------------------------
(* C3: once a workflow has left pending (a click by the author was         *)
(* accepted, or the view timed out), no later click passes the gate: none  *)
(* is acknowledged, posts an Announcement or touches the controls.         *)

LeftPending(w) ==
    \/ views[w].finished
    \/ \E g \in DOMAIN handlers : handlers[g].view = w /\ ByAuthor(g)

C3_TerminalStatesIgnoreClicks ==
    [][\A h \in DOMAIN handlers' :
          (h \notin DOMAIN handlers /\ LeftPending(handlers'[h].view))
              => handlers'[h].pc = "reject"]_vars

---------------------------------------------------------------------------
(* C4: an accept by the author with the planning channel found performs    *)
(* acknowledgment, Announcement, going, maybe, not-going, edit in that     *)
(* order, skipping nothing; no step of it before the edit changes what the *)
(* prompt shows, and none before the last reaction touches the view.       *)

YesSequence == <<"ack", "announce", "going", "maybe", "not-going", "edit">>

\* callback h is yes_button, run for the author, past a successful lookup
YesFound(h) ==
    /\ handlers[h].button = "Yes"
    /\ ByAuthor(h)
    /\ handlers[h].draft # NoDraft

C4_OrderInv ==
    \A h \in DOMAIN handlers :
        YesFound(h) =>
            /\ IsPrefix(handlers[h].log, YesSequence)
            /\ handlers[h].pc = "done" => handlers[h].log = YesSequence
            /\ handlers[h].pc = "edit" => Len(handlers[h].log) = 5

C4_ControlsUntilEdit ==
    \A h \in DOMAIN handlers :
        (YesFound(h)' /\ StepOf(h)) =>
            LET log == handlers'[h].log
                w == handlers[h].view
            IN  /\ log[Len(log)] # "edit" => views'[w].prompt = views[w].prompt
                /\ log[Len(log)] \notin {"not-going", "edit"} => views' = views

C4_AcceptOrder == C4_OrderInv /\ [][C4_OrderInv' /\ C4_ControlsUntilEdit]_vars

C4_Witness ==
    \E h \in DOMAIN handlers :
        /\ YesFound(h)
        /\ handlers[h].pc = "done"
        /\ handlers[h].log = YesSequence
        /\ planning[handlers[h].session].reactions = <<"going", "maybe", "not-going">>
        /\ ControlsDisabled(handlers[h].view)

---------------------------------------------------------------------------
(* C5: a decline by the author sends the acknowledgment and disables both  *)
(* controls; it posts no Announcement and adds no reaction.                *)

NoByAuthor(h) == handlers[h].button = "No" /\ ByAuthor(h)

C5_DeclineInv ==
    \A h \in DOMAIN handlers :
        NoByAuthor(h) =>
            /\ IsPrefix(handlers[h].log, <<"ack", "edit">>)
            /\ handlers[h].session = 0
            /\ \A k \in DOMAIN planning : planning[k].by # h
            /\ handlers[h].pc = "done" =>
                   /\ handlers[h].log = <<"ack", "edit">>
                   /\ ControlsDisabled(handlers[h].view)

C5_DeclineFrame ==
    \A h \in DOMAIN handlers' :
        (NoByAuthor(h)' /\ StepOf(h)) => planning' = planning

C5_Decline == C5_DeclineInv /\ [][C5_DeclineInv' /\ C5_DeclineFrame]_vars

C5_Witness ==
    \E h \in DOMAIN handlers :
        /\ NoByAuthor(h)
        /\ handlers[h].pc = "done"
        /\ ControlsDisabled(handlers[h].view)
        /\ planning = <<>>

---------------------------------------------------------------------------
(* C6: an accept by the author with the planning channel missing sends the *)
(* acknowledgment, then the error notice, posts nothing, does not look the *)
(* channel up again, and leaves the workflow resolved: no longer pending.  *)

YesMissing(h) ==
    /\ handlers[h].button = "Yes"
    /\ ByAuthor(h)
    /\ handlers[h].pc = "done"
    /\ handlers[h].draft = NoDraft

C6_ChannelMissingResolves ==
    \A h \in DOMAIN handlers :
        YesMissing(h) =>
            /\ handlers[h].log = <<"ack", "error">>
            /\ \A k \in DOMAIN planning : planning[k].by # h
            /\ ~Pending(handlers[h].view)

---------------------------------------------------------------------------
(* C7: a message gets the prompt and a Confirmation Workflow exactly when  *)
(* its sender is no bot, it is in the general-discussion channel and the   *)
(* Classifier accepts its text.                                            *)

PassesAllGates(message) ==
    /\ ~message.author.bot
    /\ message.channel = GENERAL_CHANNEL_ID
    /\ looks_like_study_session(message.content)

\* the inbound messages that pass all three gates
Qualifying == {message \in Inbound : PassesAllGates(message)}

C7_PromptIffGates ==
    \A m \in DOMAIN msgs :
        /\ views[m].stored <=> Count(routers[m].log, "reply") = 1
        /\ Count(routers[m].log, "reply") <= 1
        /\ (views[m].stored \/ routers[m].pc = "reply") => msgs[m] \in Qualifying
        /\ routers[m].pc = "done" => (views[m].stored <=> msgs[m] \in Qualifying)

C7_Witness ==
    /\ \E m \in DOMAIN msgs : views[m].stored /\ msgs[m] \in Qualifying
    /\ \E m \in DOMAIN msgs :
          /\ routers[m].pc = "done"
          /\ ~views[m].stored
          /\ msgs[m].channel # GENERAL_CHANNEL_ID

---------------------------------------------------------------------------
(* C8: every inbound message, whatever its sender, channel and text, goes  *)
(* to process_commands exactly once, before any gate is evaluated and      *)
(* before any prompt is sent.                                              *)

C8_CommandsFirstOnce ==
    /\ Len(routers) = Len(msgs)
    /\ \A m \in DOMAIN msgs :
          IF routers[m].pc = "process_commands"
          THEN routers[m].log = <<>>
          ELSE /\ routers[m].log # <<>>
               /\ routers[m].log[1] = "process_commands"
               /\ Count(routers[m].log, "process_commands") = 1

C8_Witness ==
    /\ \E m \in DOMAIN msgs :
          msgs[m].author.bot /\ routers[m].log = <<"process_commands", "check_bot">>
    /\ \E m \in DOMAIN msgs :
          routers[m].log = <<"process_commands", "check_bot", "check_channel",
                             "classify", "reply">>

---------------------------------------------------------------------------
(* C9: the Classifier answers true exactly when the lowercased text holds  *)
(* an intent keyword and, besides, a clock-time token or a schedule        *)
(* keyword.                                                                *)

\* the strings of the clock-time language, character classes written out:
\* one or two digits, then either [:dd][space](am|pm) or :dd
ClockShapes ==
    { d \o c \o s \o a :
        d \in {<<"digit">>, <<"digit", "digit">>},
        c \in {<<>>, <<":", "digit", "digit">>},
        s \in {<<>>, <<"space">>},
        a \in {<<"a", "m">>, <<"p", "m">>} }
    \cup { d \o <<":", "digit", "digit">> : d \in {<<"digit">>, <<"digit", "digit">>} }

ShapeOf(t) ==
    [k \in 1..Len(t) |->
        IF IsDigit(t[k]) THEN "digit" ELSE IF IsSpace(t[k]) THEN "space" ELSE t[k]]

\* some substring of text is a clock-time string standing between two word
\* boundaries
HasClockToken(text) ==
    \E i \in 1..Len(text) :
        \E j \in i..Len(text) :
            /\ j - i < 8
            /\ ShapeOf(SubSeq(text, i, j)) \in ClockShapes
            /\ WordBoundary(text, i)
            /\ WordBoundary(text, j + 1)

HasIntentKeyword(text) == \E k \in DOMAIN INTENT_KEYWORDS : Contains(text, INTENT_KEYWORDS[k])

HasScheduleKeyword(text) ==
    \E k \in DOMAIN SCHEDULE_KEYWORDS : Contains(text, SCHEDULE_KEYWORDS[k])

C9_ClassifierContract ==
    cresult.ran =>
        LET lowered == Lower(ctext)
        IN  cresult.value =
                Some(/\ HasIntentKeyword(lowered)
                     /\ (HasClockToken(lowered) \/ HasScheduleKeyword(lowered)))

C9_Witness ==
    /\ cresult.ran
    /\ cresult.value = Some(TRUE)
    /\ HasClockToken(Lower(ctext))
    /\ ~HasScheduleKeyword(Lower(ctext))
    /\ ctext # Lower(ctext)

---------------------------------------------------------------------------
(* C10: when the full parse finds nothing and the clock-time token the     *)
(* scan finds parses to h:m, parse_when returns h:m:00 today if that is    *)
(* later than the current time of day and h:m:00 tomorrow otherwise (also  *)
(* when it equals the current instant): a point strictly after now and at  *)
(* most 24 hours after it.                                                 *)

SecondsOf(dt) == ((dt.date * 24 + dt.hour) * 60 + dt.minute) * 60 + dt.second

\* the token re.search finds in the lowercased text, parsed: None, or the
\* hour and minute
ScannedTime(text) ==
    LET lowered == Lower(text)
        m == re_search(lowered)
    IN  IF m = None THEN None
        ELSE dateparser_parse_time(SubSeq(lowered, m[1].start, m[1].end))

C10_FallbackNextOccurrence ==
    (xresult.ran /\ xfull = None /\ ScannedTime(xtext) # None) =>
        LET t == ScannedTime(xtext)[1]
            laterToday ==
                \/ t.hour > xnow.hour
                \/ t.hour = xnow.hour /\ t.minute > xnow.minute
        IN  /\ xresult.value # None
            /\ LET dt == xresult.value[1]
               IN  /\ dt.hour = t.hour
                   /\ dt.minute = t.minute
                   /\ dt.second = 0
                   /\ dt.microsecond = 0
                   /\ dt.date = IF laterToday THEN xnow.date ELSE xnow.date + 1
                   /\ DtLess(xnow, dt)
                   /\ SecondsOf(dt) - SecondsOf(xnow) <= 24 * 60 * 60

\* the token names the current instant exactly, and the answer is tomorrow
C10_Witness ==
    /\ xresult.ran
    /\ xfull = None
    /\ xresult.value # None
    /\ xresult.value[1] = [xnow EXCEPT !.date = xnow.date + 1]

---------------------------------------------------------------------------
(* C11: a view that has gone 60 seconds since its creation without a click *)
(* of either button has expired by then; the step in which it expires      *)
(* sends nothing (no callback starts or moves, nothing is posted, no       *)
(* control flag changes); and no click is dispatched to an expired view,   *)
(* so nothing changes the controls of an expired view that no callback was *)
(* running on.                                                             *)

\* no click of either button of w was ever dispatched
NeverClicked(w) == \A h \in DOMAIN handlers : handlers[h].view # w

\* no callback of w is still running
NoneRunning(w) ==
    \A h \in DOMAIN handlers :
        handlers[h].view = w => handlers[h].pc \in {"done", "raised"}

C11_ExpiredBySixty ==
    \A w \in DOMAIN views :
        (views[w].stored /\ NeverClicked(w) /\ views[w].idle >= timeout) =>
            (views[w].finished \/ views[w].idle = timeout)

C11_ExpiryStep ==
    \A w \in DOMAIN views :
        /\ (~views[w].finished /\ views'[w].finished) =>
               /\ handlers' = handlers
               /\ planning' = planning
               /\ routers' = routers
               /\ views'[w] = [views[w] EXCEPT !.finished = TRUE]
        /\ views[w].finished =>
               /\ views'[w].finished
               /\ \A h \in DOMAIN handlers' \ DOMAIN handlers : handlers'[h].view # w
               /\ NoneRunning(w) =>
                      /\ views'[w].children = views[w].children
                      /\ views'[w].prompt = views[w].prompt
                      /\ Announcements(w)' = Announcements(w)

---------------------------------------------------------------------------
(* C12: every Announcement carries the mention of the author and the text  *)
(* of its originating message, and has a when-line exactly when parse_when *)
(* returns a time for that text; an accept by the author with the channel  *)
(* found posts its Announcement when the send returns, with or without a   *)
(* time, and when it has run to its end the Announcement has the three     *)
(* reactions and the controls are disabled.                                *)

\* the texts of Inbound for which parse_when returns a time in a callback
ContentsWithTime ==
    { message.content : message \in
        { i \in Inbound : \E full \in BotFullParses, now \in BotNows :
              parse_when(i.content, full, now) # None } }

C12_AnnouncementInv ==
    /\ \A k \in DOMAIN planning :
           LET message == msgs[planning[k].view]
               text == planning[k].text
           IN  /\ text.mention = message.author.id
               /\ text.content = message.content
               /\ (text.when_line # None) <=> (message.content \in ContentsWithTime)
    /\ \A h \in DOMAIN handlers :
           YesFound(h) =>
               /\ handlers[h].pc \in {"react_going", "react_maybe", "react_not_going",
                                      "edit", "done"} =>
                      /\ handlers[h].session \in DOMAIN planning
                      /\ planning[handlers[h].session].by = h
               /\ handlers[h].pc = "done" =>
                      /\ planning[handlers[h].session].reactions =
                             <<"going", "maybe", "not-going">>
                      /\ ControlsDisabled(handlers[h].view)

C12_SendPosts ==
    \A h \in DOMAIN handlers :
        (YesFound(h) /\ handlers[h].pc = "send" /\ handlers'[h].pc = "react_going") =>
            /\ Len(planning') = Len(planning) + 1
            /\ planning'[Len(planning')].by = h
            /\ planning'[Len(planning')].text = handlers[h].draft

C12_AnnouncementWithOrWithoutTime ==
    C12_AnnouncementInv /\ [][C12_AnnouncementInv' /\ C12_SendPosts]_vars

\* an accept whose text has no time ran to its end, and another
\* Announcement has a when-line
C12_Witness ==
    /\ \E h \in DOMAIN handlers :
           /\ YesFound(h)
           /\ handlers[h].pc = "done"
           /\ planning[handlers[h].session].text.when_line = None
           /\ planning[handlers[h].session].reactions = <<"going", "maybe", "not-going">>
           /\ ControlsDisabled(handlers[h].view)
    /\ \E k \in DOMAIN planning : planning[k].text.when_line # None

---------------------------------------------------------------------------
(* C17: on the fallback path the time parse_when returns, which the        *)
(* when-line shows with the label (ET), is the first occurrence of the     *)
(* scanned time of day strictly after the current US Eastern wall clock,   *)
(* whatever the time zone of the host.                                     *)

\* the scanned time of day, today by the Eastern wall clock if that is
\* still ahead and tomorrow otherwise
NextEasternOccurrence(t, eastern) ==
    LET today == DateTime(eastern.date, t.hour, t.minute, 0, 0)
    IN  IF DtLess(eastern, today) THEN today
        ELSE [today EXCEPT !.date = @ + 1]

C17_WhenLineIsEastern ==
    (xresult.ran /\ xfull = None /\ ScannedTime(xtext) # None) =>
        /\ xresult.value # None
        /\ strftime(xresult.value[1]) =
               strftime(NextEasternOccurrence(ScannedTime(xtext)[1], xeastern))

---------------------------------------------------------------------------
(* C14: when the send, an add_reaction or the final edit of an accept by   *)
(* the author raises, the callback has made no call twice, has sent        *)
(* nothing but its acknowledgment, the Announcement and reactions, and the *)
(* prompt shows both controls disabled.                                    *)

\* callback h is an accept by the author whose send, add_reaction or edit
\* raised
YesRaised(h) ==
    /\ YesFound(h)
    /\ handlers[h].pc = "raised"

C14_FailureStillDisables ==
    \A h \in DOMAIN handlers :
        YesRaised(h) =>
            /\ IsPrefix(handlers[h].log, YesSequence)
            /\ \A b \in Buttons : views[handlers[h].view].prompt.disabled[b]

---------------------------------------------------------------------------
(* C15: a step of a button callback, its dispatch included, changes        *)
(* neither the view and prompt of any other originating message, nor the   *)
(* Announcements posted for it, nor any other callback; and every          *)
(* Announcement was posted by a callback of the view it is filed under and *)
(* carries the mention and the text of that view's originating message.    *)

C15_OwnMessage ==
    \A k \in DOMAIN planning :
        /\ planning[k].by \in DOMAIN handlers
        /\ handlers[planning[k].by].view = planning[k].view
        /\ planning[k].text.mention = msgs[planning[k].view].author.id
        /\ planning[k].text.content = msgs[planning[k].view].content

C15_OthersUnchanged ==
    \A h \in DOMAIN handlers' :
        StepOf(h) =>
            /\ \A w \in DOMAIN views :
                   w # handlers'[h].view =>
                       /\ views'[w] = views[w]
                       /\ Announcements(w)' = Announcements(w)
                       /\ \A k \in Announcements(w) : planning'[k] = planning[k]
            /\ \A g \in DOMAIN handlers : g # h => handlers'[g] = handlers[g]
            /\ msgs' = msgs
            /\ routers' = routers

C15_Independence == C15_OwnMessage /\ [][C15_OwnMessage' /\ C15_OthersUnchanged]_vars

\* two workflows were pending at once; the accept on one ran to its end and
\* the other is still pending
C15_Witness ==
    \E h \in DOMAIN handlers, w \in DOMAIN views :
        /\ w # handlers[h].view
        /\ Pending(w)
        /\ YesFound(h)
        /\ handlers[h].pc = "done"
        /\ ControlsDisabled(handlers[h].view)
        /\ Announcements(handlers[h].view) # {}
        /\ \E g \in DOMAIN handlers : handlers[g].view = w

---------------------------------------------------------------------------
(* C16: there is one view slot per inbound message and as many views as    *)
(* prompts sent; a view is created only by the step that sends its         *)
(* message's prompt, as a new view, and the router of that message never   *)
(* runs again; and a message that passes the gates has its own view once   *)
(* its router is done, whatever earlier messages of the same author have   *)
(* pending.                                                                *)

C16_OnePerMessage ==
    /\ Len(views) = Len(msgs)
    /\ Len(routers) = Len(msgs)
    /\ \A m \in DOMAIN msgs :
           /\ Count(routers[m].log, "reply") = (IF views[m].stored THEN 1 ELSE 0)
           /\ views[m].stored => routers[m].pc = "done"
           /\ (routers[m].pc = "done" /\ msgs[m] \in Qualifying) => views[m].stored

C16_CreatedOnce ==
    \A m \in DOMAIN msgs :
        /\ (~views[m].stored /\ views'[m].stored) =>
               /\ views'[m] = NewView
               /\ routers'[m].log = Append(routers[m].log, "reply")
               /\ \A n \in DOMAIN msgs : n # m => views'[n] = views[n]
        /\ views[m].stored =>
               /\ views'[m].stored
               /\ routers'[m] = routers[m]
               /\ msgs'[m] = msgs[m]

C16_OneWorkflowPerMessage ==
    C16_OnePerMessage /\ [][C16_OnePerMessage' /\ C16_CreatedOnce]_vars

\* the same author sent the same qualifying text twice, and both workflows
\* are pending at once
C16_Witness ==
    \E m \in DOMAIN msgs, n \in DOMAIN msgs :
        /\ m # n
        /\ msgs[m] = msgs[n]
        /\ Pending(m)
        /\ Pending(n)

---------------------------------------------------------------------------
(* C18: every message in the planning channel was posted by a yes_button   *)
(* callback run for the author of a message that came from a sender that   *)
(* is no bot, in the general-discussion channel, with a text the           *)
(* Classifier accepts, and whose prompt had been sent; the planning        *)
(* channel only grows, by one message, in a step that completes the send   *)
(* of such a callback.                                                     *)

C18_ProvenanceInv ==
    \A k \in DOMAIN planning :
        LET h == planning[k].by
            w == planning[k].view
        IN  /\ w \in DOMAIN msgs
            /\ ~msgs[w].author.bot
            /\ msgs[w].channel = GENERAL_CHANNEL_ID
            /\ msgs[w] \in Qualifying
            /\ Count(routers[w].log, "reply") = 1
            /\ views[w].stored
            /\ h \in DOMAIN handlers
            /\ handlers[h].view = w
            /\ handlers[h].button = "Yes"
            /\ handlers[h].user = msgs[w].author.id
            /\ handlers[h].session = k

C18_OnlyAcceptPosts ==
    \/ Len(planning') = Len(planning)
    \/ /\ Len(planning') = Len(planning) + 1
       /\ \E h \in DOMAIN handlers :
              /\ handlers[h].button = "Yes"
              /\ ByAuthor(h)
              /\ handlers[h].pc = "send"
              /\ handlers'[h].pc = "react_going"
              /\ planning'[Len(planning')].by = h
              /\ DOMAIN handlers' = DOMAIN handlers
              /\ views' = views
              /\ routers' = routers
              /\ msgs' = msgs

C18_Provenance == C18_ProvenanceInv /\ [][C18_ProvenanceInv' /\ C18_OnlyAcceptPosts]_vars

\* one Announcement, posted for an accept, while a decline or a click by
\* someone else ran to its end without one
C18_Witness ==
    /\ Len(planning) = 1
    /\ \E h \in DOMAIN handlers :
           /\ handlers[h].pc = "done"
           /\ planning[1].by # h
           /\ (handlers[h].button = "No" \/ ~ByAuthor(h))

---------------------------------------------------------------------------
(* C19: a button callback sends at most one initial response (the          *)
(* rejection notice to anyone but the author, the acknowledgment to the    *)
(* author), as its first outbound action, and exactly one once it has run  *)
(* to its end; the error notice is sent at most once, only by yes_button,  *)
(* only right after the acknowledgment, and only when the planning channel *)
(* was not found; then it is the last thing the callback does.             *)

InitialResponses(log) == Count(log, "ack") + Count(log, "reject")

C19_SingleResponse ==
    \A h \in DOMAIN handlers :
        LET log == handlers[h].log
        IN  /\ InitialResponses(log) <= 1
            /\ log # <<>> =>
                   /\ log[1] = (IF ByAuthor(h) THEN "ack" ELSE "reject")
                   /\ InitialResponses(log) = 1
            /\ handlers[h].pc = "done" => InitialResponses(log) = 1
            /\ (handlers[h].pc = "done" /\ ~ByAuthor(h)) => log = <<"reject">>
            /\ Count(log, "error") > 0 =>
                   /\ log = <<"ack", "error">>
                   /\ handlers[h].button = "Yes"
                   /\ ByAuthor(h)
                   /\ handlers[h].draft = NoDraft
                   /\ \A k \in DOMAIN planning : planning[k].by # h
            /\ handlers[h].pc = "followup" => log = <<"ack">>
            /\ (handlers[h].pc = "done" /\ handlers[h].button = "Yes" /\ ByAuthor(h)) =>
                   (Count(log, "error") = 1 <=> handlers[h].draft = NoDraft)

\* an accept that did not find the channel and a rejected click both ran to
\* their end
C19_Witness ==
    /\ \E h \in DOMAIN handlers :
           handlers[h].pc = "done" /\ handlers[h].log = <<"ack", "error">>
    /\ \E h \in DOMAIN handlers :
           handlers[h].pc = "done" /\ handlers[h].log = <<"reject">>

---------------------------------------------------------------------------
(* C20: when every awaited platform call returns and none raises, every    *)
(* button callback runs to its end; an accept by the author that found the *)
(* channel and a decline by the author end with the edit, after which the  *)
(* prompt shows both controls disabled; a click by anyone else ends right  *)
(* after the rejection notice, with no edit.                               *)

Started(h) == h \in DOMAIN handlers

Finished(h) == h \in DOMAIN handlers /\ handlers[h].pc = "done"

\* callback h ran to its end and its last call was the edit
EndedWithEdit(h) ==
    /\ Finished(h)
    /\ handlers[h].log # <<>>
    /\ handlers[h].log[Len(handlers[h].log)] = "edit"
    /\ \A b \in Buttons : views[handlers[h].view].prompt.disabled[b]

C20_HandlersComplete ==
    \A h \in 1..MaxClicks :
        /\ Started(h) ~> Finished(h)
        /\ (Started(h) /\ YesFound(h)) ~> EndedWithEdit(h)
        /\ (Started(h) /\ NoByAuthor(h)) ~> EndedWithEdit(h)
        /\ (Started(h) /\ ~ByAuthor(h)) ~>
               (Finished(h) /\ handlers[h].log = <<"reject">>)

\* an accept that found the channel ended with the edit, and a rejected
\* click ended right after its notice
C20_Witness ==
    /\ \E h \in DOMAIN handlers : YesFound(h) /\ EndedWithEdit(h)
    /\ \E h \in DOMAIN handlers :
           ~ByAuthor(h) /\ Finished(h) /\ handlers[h].log = <<"reject">>

====
